---- MODULE Spec2Model ----
(***************************************************************************)
(* The HTML document shell of src/src/html.jsx: the module-level read of   *)
(* the CSS asset (lines 8-17) and HTML.render (lines 20-54), which builds  *)
(* the React element tree of the page.  A document is that element tree:   *)
(* an element is a record of its type, its props (a set of name/value      *)
(* pairs) and the sequence of its children.                                *)
(***************************************************************************)
EXTENDS Integers, Sequences, FiniteSets, TLC

VARIABLES NODE_ENV, asset, pc, inlinedStyles, console, reads,
          build, renders, last, remembered

vars == <<NODE_ENV, asset, pc, inlinedStyles, console, reads,
          build, renders, last, remembered>>

(* ---------------------------------------------------------------- bounds *)

\* Renders observed over a whole behaviour.
MaxRenders == 2
\* Build processes (evaluations of the module) over a whole behaviour.
MaxBuilds == 2

(* ---------------------------------------------------------------- inputs *)

\* process.env.NODE_ENV, compared with 'production' at lines 9 and 22.
Modes == {"production", "development"}

\* The state of ../public/styles.css when a build evaluates the module:
\* unreadable (require throws) or readable with some text.
CssTexts == {"body{margin:0}", "a>b{color:#c00}"}

Assets == {[readable |-> FALSE, text |-> ""]}
            \cup {[readable |-> TRUE, text |-> t] : t \in CssTexts}

\* this.props.headComponents, this.props.body, this.props.postBodyComponents:
\* opaque fragments handed in by the static-site framework.
HeadFragments == {"", "<title>Docs & \"API\"</title>"}

BodyFragments == {"", "<p>a < b && c</p>"}

PostBodyFragments == {"", "<script src='/app.js'></script>"}

(* ------------------------------------------------------- element trees *)

\* React.createElement(type, props, ...children), as JSX compiles to.
Element(type, props, children) ==
  [type |-> type, props |-> props, children |-> children]

\* A JSX expression container {value} in child position: the value is
\* handed to React as a child, as it is.
Child(value) == Element("#child", {<<"value", value>>}, <<>>)

\* A string given as the text content of an element (React escapes it
\* when it serialises the tree), as opposed to dangerouslySetInnerHTML.
Text(value) == Element("#text", {<<"value", value>>}, <<>>)

\* The value of prop `name` of element e, or Undefined.
Undefined == "\\undefined"

Prop(e, name) ==
  IF \E p \in e.props : p[1] = name
    THEN (CHOOSE p \in e.props : p[1] = name)[2]
    ELSE Undefined

(* ------------------------------------------------------------- render *)

\* <style id='gatsby-inlined-css' dangerouslySetInnerHTML={{ __html: css }} />
CssElement(css) ==
  Element("style",
          {<<"id", "gatsby-inlined-css">>, <<"dangerouslySetInnerHTML", css>>},
          <<>>)

CssAlways(env, css) == <<CssElement(css)>>

\* `let css;` stays undefined unless NODE_ENV is 'production'; an undefined
\* child {css} renders nothing, so it is the empty list of children.
CssChildren(env, css) ==
  IF env = "production" THEN <<CssElement(css)>> ELSE <<>>

MetaCharset == Element("meta", {<<"charSet", "utf-8">>}, <<>>)

MetaViewport ==
  Element("meta",
          {<<"name", "viewport">>,
           <<"content", "width=device-width, initial-scale=1.0">>},
          <<>>)

FaviconLink ==
  Element("link",
          {<<"rel", "shortcut icon">>, <<"type", "image/png">>,
           <<"href", "https://raw.githubusercontent.com/Akkatecture/Documentation/master/src/favicon.png">>},
          <<>>)

SearchStylesheetLink ==
  Element("link",
          {<<"rel", "stylesheet">>,
           <<"href", "https://cdn.jsdelivr.net/npm/docsearch.js@2/dist/cdn/docsearch.min.css">>},
          <<>>)

SearchScript ==
  Element("script",
          {<<"type", "text/javascript">>,
           <<"src", "https://cdn.jsdelivr.net/npm/docsearch.js@2/dist/cdn/docsearch.min.js">>},
          <<>>)

HeadCssFirst(headComponents, cssChildren) ==
  Element("head", {},
          <<MetaCharset, MetaViewport>> \o cssChildren
            \o <<Child(headComponents), FaviconLink, SearchStylesheetLink,
                 SearchScript>>)

HeadSearchScriptWithCss(headComponents, cssChildren) ==
  Element("head", {},
          <<MetaCharset, MetaViewport, Child(headComponents), FaviconLink,
            SearchStylesheetLink>>
            \o (IF cssChildren = <<>> THEN <<SearchScript>> ELSE <<>>)
            \o cssChildren)

\* <head> ... </head>, lines 32-43.
HeadElement(headComponents, cssChildren) ==
  Element("head", {},
          <<MetaCharset, MetaViewport, Child(headComponents), FaviconLink,
            SearchStylesheetLink, SearchScript>> \o cssChildren)

BodyEscaped(body, postBodyComponents) ==
  Element("body", {},
          <<Element("div", {<<"id", "___gatsby">>}, <<Text(body)>>),
            Child(postBodyComponents)>>)

\* <body> ... </body>, lines 44-51.
BodyElement(body, postBodyComponents) ==
  Element("body", {},
          <<Element("div",
                    {<<"id", "___gatsby">>, <<"dangerouslySetInnerHTML", body>>},
                    <<>>),
            Child(postBodyComponents)>>)

HTMLrenderSkipsEmptyBody(env, css, props) ==
  Element("html", {<<"lang", "en">>},
          <<HeadElement(props.headComponents, CssChildren(env, css))>>
            \o (IF props.body = "" THEN <<>>
                ELSE <<BodyElement(props.body, props.postBodyComponents)>>))

\* HTML.render(): the element tree of the page, from NODE_ENV, the
\* module-level inlinedStyles and this.props.
HTMLrender(env, css, props) ==
  Element("html", {<<"lang", "en">>},
          <<HeadElement(props.headComponents, CssChildren(env, css)),
            BodyElement(props.body, props.postBodyComponents)>>)

(* ---------------------------------------------------------- the process *)

NoElement == Element("#none", {}, <<>>)

NoProps == [headComponents |-> "", body |-> "", postBodyComponents |-> ""]

\* What an observer records of one render: its number, the build it ran in,
\* that build's mode and CSS asset, the props and the document returned.
NoRender ==
  [n |-> 0, build |-> 0, env |-> "development",
   asset |-> [readable |-> FALSE, text |-> ""],
   props |-> NoProps, doc |-> NoElement]

Init ==
  /\ NODE_ENV \in Modes
  /\ asset \in Assets
  /\ pc = "start"
  /\ inlinedStyles = ""
  /\ console = <<>>
  /\ reads = 0
  /\ build = 1
  /\ renders = 0
  /\ last = NoRender
  /\ remembered = NoRender

\* require('!raw-loader!../public/styles.css'): throws when the asset cannot
\* be resolved or read, and evaluates to its text otherwise.
Require(a) ==
  [threw |-> ~a.readable, value |-> a.text,
   error |-> "Error: Cannot find module '!raw-loader!../public/styles.css'"]

AssignDropped(value) ==
  /\ UNCHANGED <<inlinedStyles, console>>
  /\ pc' = "loaded"

\* inlinedStyles = require(...), when require returns (line 12).
Assign(value) ==
  /\ inlinedStyles' = value
  /\ UNCHANGED console
  /\ pc' = "loaded"

CatchRethrows(e) ==
  /\ UNCHANGED <<inlinedStyles, console>>
  /\ pc' = "crashed"

CatchKeepsError(e) ==
  /\ console' = Append(console, e)
  /\ inlinedStyles' = e
  /\ pc' = "loaded"

\* catch (e) { console.log(e); } (lines 13-16): module evaluation goes on.
Catch(e) ==
  /\ console' = Append(console, e)
  /\ UNCHANGED inlinedStyles
  /\ pc' = "loaded"

\* Evaluation of the module, lines 8-17.
ModuleLoad ==
  /\ pc = "start"
  /\ IF NODE_ENV = "production"
       THEN /\ reads' = reads + 1
            /\ IF Require(asset).threw
                 THEN Catch(Require(asset).error)
                 ELSE Assign(Require(asset).value)
       ELSE /\ UNCHANGED <<reads, inlinedStyles, console>>
            /\ pc' = "loaded"
  /\ UNCHANGED <<NODE_ENV, asset, build, renders, last, remembered>>

RenderRecord(headComponents, body, postBodyComponents) ==
  LET props == [headComponents |-> headComponents, body |-> body,
                postBodyComponents |-> postBodyComponents]
  IN  [n |-> renders + 1, build |-> build, env |-> NODE_ENV, asset |-> asset,
       props |-> props, doc |-> HTMLrender(NODE_ENV, inlinedStyles, props)]

RenderRereads(headComponents, body, postBodyComponents) ==
  /\ pc = "loaded"
  /\ renders < MaxRenders
  /\ renders' = renders + 1
  /\ last' = RenderRecord(headComponents, body, postBodyComponents)
  /\ remembered' \in {remembered, last'}
  /\ reads' = IF NODE_ENV = "production" THEN reads + 1 ELSE reads
  /\ inlinedStyles' = IF NODE_ENV = "production" /\ asset.readable
                        THEN asset.text ELSE inlinedStyles
  /\ UNCHANGED <<NODE_ENV, asset, pc, console, build>>

RenderConsumes(headComponents, body, postBodyComponents) ==
  /\ pc = "loaded"
  /\ renders < MaxRenders
  /\ renders' = renders + 1
  /\ last' = RenderRecord(headComponents, body, postBodyComponents)
  /\ remembered' \in {remembered, last'}
  /\ inlinedStyles' = ""
  /\ UNCHANGED <<NODE_ENV, asset, pc, console, reads, build>>

\* One call of HTML.render() with the given props (lines 20-54).  The
\* observer keeps the record of this render, and may also keep it as the
\* one to compare later renders with.
Render(headComponents, body, postBodyComponents) ==
  /\ pc = "loaded"
  /\ renders < MaxRenders
  /\ renders' = renders + 1
  /\ last' = RenderRecord(headComponents, body, postBodyComponents)
  /\ remembered' \in {remembered, last'}
  /\ UNCHANGED <<NODE_ENV, asset, pc, inlinedStyles, console, reads, build>>

\* The next build: a new process evaluates the module from its first line,
\* with the NODE_ENV and the CSS asset of that build.
Rebuild ==
  /\ pc = "loaded"
  /\ build < MaxBuilds
  /\ build' = build + 1
  /\ NODE_ENV' \in Modes
  /\ asset' \in Assets
  /\ pc' = "start"
  /\ inlinedStyles' = ""
  /\ console' = <<>>
  /\ reads' = 0
  /\ UNCHANGED <<renders, last, remembered>>

Next ==
  \/ ModuleLoad
  \/ \E h \in HeadFragments, b \in BodyFragments, p \in PostBodyFragments :
       Render(h, b, p)
  \/ Rebuild

Spec == Init /\ [][Next]_vars

(* ------------------------------------------------- reading a document *)

\* The elements of the tree rooted at e, in document order.
RECURSIVE Elements(_)
Elements(e) ==
  LET RECURSIVE Of(_)
      Of(cs) == IF cs = <<>> THEN <<>> ELSE Elements(Head(cs)) \o Of(Tail(cs))
  IN  <<e>> \o Of(e.children)

TypesOf(cs) == [i \in DOMAIN cs |-> cs[i].type]

IsInlinedStyle(e) ==
  e.type = "style" /\ Prop(e, "id") = "gatsby-inlined-css"

IsFavicon(e) == e.type = "link" /\ Prop(e, "rel") = "shortcut icon"

IsSearchStylesheet(e) ==
  /\ e.type = "link"
  /\ Prop(e, "rel") = "stylesheet"
  /\ Prop(e, "href") = Prop(SearchStylesheetLink, "href")

IsSearchScript(e) ==
  e.type = "script" /\ Prop(e, "src") = Prop(SearchScript, "src")

IsHtml(e) == e.type = "html"

IsHead(e) == e.type = "head"

IsBody(e) == e.type = "body"

\* Whether element e is of the named kind.
Is(e, kind) ==
  CASE kind = "IsInlinedStyle" -> IsInlinedStyle(e)
    [] kind = "IsFavicon" -> IsFavicon(e)
    [] kind = "IsSearchStylesheet" -> IsSearchStylesheet(e)
    [] kind = "IsSearchScript" -> IsSearchScript(e)
    [] kind = "IsHtml" -> IsHtml(e)
    [] kind = "IsHead" -> IsHead(e)
    [] kind = "IsBody" -> IsBody(e)

\* How many elements of document d are of the named kind.
Count(d, kind) ==
  Cardinality({i \in DOMAIN Elements(d) : Is(Elements(d)[i], kind)})

\* A render has been observed.
Rendered == last.n > 0

\* The last render ran in the process that is running now.
RenderedHere == last.n > 0 /\ last.build = build /\ pc = "loaded"

\* The <head> and <body> of the last document.
HeadOf(d) == d.children[1]

BodyOf(d) == d.children[2]

(* --------------------------------------------------------------- claims *)

\* C1 as stated: production build, the CSS asset read failed: the rendered
\* document contains no inlined-style element.
C1_AsStated ==
  (Rendered /\ last.env = "production" /\ ~last.asset.readable)
    => Count(last.doc, "IsInlinedStyle") = 0

\* C1 amended: production build, the CSS asset read failed: module
\* evaluation does not fail, render returns the document, and the document
\* holds exactly one inlined-style element, whose content is empty.
C1_FailedReadRendersEmptyStyle ==
  /\ (NODE_ENV = "production" /\ ~asset.readable) => pc \in {"start", "loaded"}
  /\ (Rendered /\ last.env = "production" /\ ~last.asset.readable)
       => /\ IsHtml(last.doc)
          /\ Count(last.doc, "IsInlinedStyle") = 1
          /\ \A i \in DOMAIN Elements(last.doc) :
               IsInlinedStyle(Elements(last.doc)[i])
                 => /\ Prop(Elements(last.doc)[i], "dangerouslySetInnerHTML") = ""
                    /\ Elements(last.doc)[i].children = <<>>

C1_Witness ==
  Rendered /\ last.env = "production" /\ ~last.asset.readable
    /\ Count(last.doc, "IsInlinedStyle") = 1

\* C2: production build, the CSS asset is readable: the document contains
\* exactly one inlined-style element and its content is the asset's text.
C2_ReadableAssetInlined ==
  (Rendered /\ last.env = "production" /\ last.asset.readable)
    => /\ Count(last.doc, "IsInlinedStyle") = 1
       /\ \A i \in DOMAIN Elements(last.doc) :
            IsInlinedStyle(Elements(last.doc)[i])
              => Prop(Elements(last.doc)[i], "dangerouslySetInnerHTML")
                   = last.asset.text

C2_Witness ==
  Rendered /\ last.env = "production" /\ last.asset.readable
    /\ last.asset.text # "" /\ last.props.headComponents # ""

\* C3: development build: no document contains the inlined-style element,
\* whatever the head, body and post-body fragments.
C3_DevelopmentNoInlinedStyle ==
  (Rendered /\ last.env # "production")
    => /\ Count(last.doc, "IsInlinedStyle") = 0
       /\ \A i \in DOMAIN Elements(last.doc) : Elements(last.doc)[i].type # "style"

C3_Witness ==
  Rendered /\ last.env = "development" /\ last.asset.readable
    /\ last.props.headComponents # "" /\ last.props.body # ""

C5_OneFaviconOneSearchPair ==
  Rendered
    => /\ Count(last.doc, "IsFavicon") = 1
       /\ Count(last.doc, "IsSearchStylesheet") = 1
       /\ Count(last.doc, "IsSearchScript") = 1

C5_Witness ==
  Rendered /\ last.env = "production" /\ remembered.n > 0
    /\ remembered.env = "development"
    /\ Count(last.doc, "IsSearchScript") = 1 /\ Count(remembered.doc, "IsFavicon") = 1

\* C6 as stated: two renders with the same mode flag and the same head, body
\* and post-body fragments return the same document.
C6_AsStated ==
  (remembered.n > 0 /\ Rendered
     /\ remembered.env = last.env /\ remembered.props = last.props)
    => remembered.doc = last.doc

\* C6 amended: two renders with the same mode flag, the same fragments and
\* the same CSS asset (readable or not, and its text) in their builds
\* return the same document.
C6_DeterminedWithAsset ==
  (remembered.n > 0 /\ Rendered
     /\ remembered.env = last.env /\ remembered.props = last.props
     /\ remembered.asset = last.asset)
    => remembered.doc = last.doc

C6_Witness ==
  /\ remembered.n > 0 /\ remembered.n < last.n
  /\ remembered.build # last.build
  /\ remembered.env = "production" /\ last.env = "production"
  /\ remembered.props = last.props
  /\ remembered.asset = last.asset /\ last.asset.readable
  /\ remembered.doc = last.doc

\* C7: with empty head, body and post-body fragments the document is still
\* the shell: one html element whose children are one head element followed
\* by one body element, in either mode.
C7_EmptyFragmentsShell ==
  (Rendered /\ last.props = NoProps)
    => /\ IsHtml(last.doc)
       /\ TypesOf(last.doc.children) = <<"head", "body">>
       /\ Count(last.doc, "IsHtml") = 1
       /\ Count(last.doc, "IsHead") = 1
       /\ Count(last.doc, "IsBody") = 1

C7_Witness ==
  Rendered /\ last.props = NoProps /\ last.env = "production"
    /\ remembered.n > 0 /\ remembered.props = NoProps
    /\ remembered.env = "development" /\ IsHtml(remembered.doc)

\* C8: the CSS asset is read only in production and once per evaluation of
\* the module, and a render changes neither inlinedStyles nor the number of
\* reads nor the console.
C8_ReadOnceRenderPure ==
  /\ [](reads = IF pc = "loaded" /\ NODE_ENV = "production" THEN 1 ELSE 0)
  /\ [][renders' # renders
          => UNCHANGED <<inlinedStyles, reads, console>>]_vars

C8_Witness ==
  /\ RenderedHere /\ remembered.build = build
  /\ remembered.n > 0 /\ remembered.n < last.n
  /\ NODE_ENV = "production" /\ asset.readable
  /\ reads = 1 /\ inlinedStyles = asset.text

\* C9: in production a failed read of the CSS asset is caught while the
\* module is evaluated: it is logged to the console once, inlinedStyles
\* stays the empty string and evaluation completes, so HTML can be
\* rendered; nothing else is ever logged.
C9_FailedReadCaughtLoggedOnce ==
  /\ (NODE_ENV = "production" /\ ~asset.readable /\ pc # "start")
       => /\ pc = "loaded"
          /\ console = <<Require(asset).error>>
          /\ inlinedStyles = ""
          /\ renders < MaxRenders => ENABLED Render("", "", "")
  /\ console # <<>> => (NODE_ENV = "production" /\ ~asset.readable)
  /\ pc \in {"start", "loaded"}

C9_Witness ==
  /\ NODE_ENV = "production" /\ ~asset.readable
  /\ RenderedHere
  /\ Len(console) = 1 /\ inlinedStyles = ""

\* C10: a render in production returns a document with exactly one style
\* element of id 'gatsby-inlined-css', the last child of <head>, whose
\* content is the module's inlinedStyles; and inlinedStyles is the empty
\* string when the read failed or the module was evaluated outside
\* production.
C10_ProductionStyleLastInHead ==
  /\ (RenderedHere /\ NODE_ENV = "production")
       => LET h == HeadOf(last.doc)
          IN  /\ Count(last.doc, "IsInlinedStyle") = 1
              /\ IsHead(h)
              /\ IsInlinedStyle(h.children[Len(h.children)])
              /\ Prop(h.children[Len(h.children)], "dangerouslySetInnerHTML")
                   = inlinedStyles
  /\ (pc = "loaded" /\ (~asset.readable \/ NODE_ENV # "production"))
       => inlinedStyles = ""

C10_Witness ==
  /\ RenderedHere /\ NODE_ENV = "production" /\ asset.readable
  /\ inlinedStyles # ""
  /\ Prop(HeadOf(last.doc).children[Len(HeadOf(last.doc).children)],
          "dangerouslySetInnerHTML") = inlinedStyles

====
